---- MODULE Spec2Model ----
(***************************************************************************)
(* A model of gorillapkg.py, the manifest generation engine of gorilla-pkg: *)
(* the version encoder (parse_version), the directory resolver              *)
(* (find_standard_directory), the tree builder (add_payload_files,          *)
(* get_or_create_directory), the action scheduler (add_custom_actions) and  *)
(* the pipeline of main().                                                  *)
(*                                                                           *)
(* Python strings are TLA+ strings; a character is a string of length 1.    *)
(* The tool builds Windows installers: os.path is ntpath, the separator is  *)
(* the backslash and Path is WindowsPath.                                   *)
(***************************************************************************)
EXTENDS Integers, Sequences, FiniteSets, TLC

VARIABLES
    vin,        \* parse_version: the version string handed to it
    vparts,     \* the dot-separated parts vin is made of
    vout,       \* parse_version: its outcome, [kind, value]
    din,        \* find_standard_directory: the install path handed to it
    duser,      \* os.getlogin(), which get_standard_directories builds the table from
    dout,       \* find_standard_directory: its outcome
    env,        \* one run of main(): the host and the command line
    project,    \* the project directory: its payload and scripts trees
    config,     \* build-info.yaml as read_build_info returned it
    pc,         \* where main() stands
    outcome,    \* how the run ended ("" while it runs)
    doc,        \* the lxml element tree under construction, in creation order
    current_dir,\* the element the payload is inserted under
    pending,    \* the files the running loop has still to visit
    script_count, \* add_custom_actions' counter
    next_uuid,  \* the uuid4 values drawn so far
    notices,    \* the messages add_custom_actions logged
    manifest,   \* src/Package.wxs: the tree written to it (<<>>: no file)
    invoked     \* the external tools invoked: the compiler's build, the signer

versionVars == <<vin, vparts, vout>>
dirVars == <<din, duser, dout>>
runVars == <<env, project, config, pc, outcome, doc, current_dir, pending,
             script_count, next_uuid, notices, manifest, invoked>>
vars == <<vin, vparts, vout, din, duser, dout, env, project, config, pc, outcome,
          doc, current_dir, pending, script_count, next_uuid, notices, manifest,
          invoked>>

----------------------------------------------------------------------------
(* Strings *)

Ch(s, i) == SubSeq(s, i, i)

DropFirst(s, n) == SubSeq(s, n + 1, Len(s))

StartsWith(s, p) == Len(p) <= Len(s) /\ SubSeq(s, 1, Len(p)) = p

EndsWith(s, p) == Len(p) <= Len(s) /\ SubSeq(s, Len(s) - Len(p) + 1, Len(s)) = p

\* str.find: the first index (from 1) at which sub occurs in s, 0 when it does not
Find(s, sub) ==
    LET hits == {i \in 1..(Len(s) - Len(sub) + 1) : SubSeq(s, i, i + Len(sub) - 1) = sub}
    IN IF hits = {} THEN 0 ELSE CHOOSE i \in hits : \A j \in hits : i <= j

\* str.rfind: the last index (from 1) at which sub occurs in s, 0 when it does not
RFind(s, sub) ==
    LET hits == {i \in 1..(Len(s) - Len(sub) + 1) : SubSeq(s, i, i + Len(sub) - 1) = sub}
    IN IF hits = {} THEN 0 ELSE CHOOSE i \in hits : \A j \in hits : i >= j

\* the "in" operator on strings
Contains(s, sub) == Find(s, sub) > 0

\* str.split(sep) for a separator of one character: always at least one part
RECURSIVE Split(_, _)
Split(s, sep) ==
    LET i == Find(s, sep)
    IN IF i = 0 THEN <<s>>
       ELSE <<SubSeq(s, 1, i - 1)>> \o Split(DropFirst(s, i), sep)

\* sep.join(parts)
RECURSIVE Join(_, _)
Join(parts, sep) ==
    IF Len(parts) = 0 THEN ""
    ELSE IF Len(parts) = 1 THEN parts[1]
    ELSE parts[1] \o sep \o Join(Tail(parts), sep)

\* str.replace(old, new) for a non-empty old
RECURSIVE Replace(_, _, _)
Replace(s, old, new) ==
    IF s = "" THEN ""
    ELSE IF StartsWith(s, old) THEN new \o Replace(DropFirst(s, Len(old)), old, new)
    ELSE Head(s) \o Replace(Tail(s), old, new)

UpperChars == "ABCDEFGHIJKLMNOPQRSTUVWXYZ"
LowerChars == "abcdefghijklmnopqrstuvwxyz"

UpperToLower ==
    [c \in {Ch(UpperChars, i) : i \in 1..Len(UpperChars)} |->
        Ch(LowerChars, Find(UpperChars, c))]

LowerCh(c) == IF c \in DOMAIN UpperToLower THEN UpperToLower[c] ELSE c

\* str.lower()
RECURSIVE Lower(_)
Lower(s) == IF s = "" THEN "" ELSE LowerCh(Head(s)) \o Lower(Tail(s))

\* str.lstrip(c) for one character c
RECURSIVE LStrip(_, _)
LStrip(s, c) == IF s # "" /\ Head(s) = c THEN LStrip(Tail(s), c) ELSE s

RECURSIVE RStrip(_, _)
RStrip(s, c) ==
    IF s # "" /\ Ch(s, Len(s)) = c THEN RStrip(SubSeq(s, 1, Len(s) - 1), c) ELSE s

----------------------------------------------------------------------------
(* Integers and their decimal text *)

Digits == "0123456789"

IsDigit(c) == Find(Digits, c) > 0

DigitVal(c) == Find(Digits, c) - 1

AllDigits(s) == s # "" /\ \A i \in 1..Len(s) : IsDigit(Ch(s, i))

RECURSIVE DecVal(_)
DecVal(s) ==
    IF s = "" THEN 0
    ELSE DecVal(SubSeq(s, 1, Len(s) - 1)) * 10 + DigitVal(Ch(s, Len(s)))

\* int(s): surrounding blanks are dropped, then an optional sign and one or more
\* decimal digits; anything else raises ValueError (ok = FALSE).
PyInt(s) ==
    LET t    == RStrip(LStrip(s, " "), " ")
        sign == IF t # "" /\ Head(t) \in {"+", "-"} THEN Head(t) ELSE ""
        body == IF sign = "" THEN t ELSE Tail(t)
    IN IF AllDigits(body)
       THEN [ok |-> TRUE, val |-> IF sign = "-" THEN 0 - DecVal(body) ELSE DecVal(body)]
       ELSE [ok |-> FALSE, val |-> 0]

\* str(n) of the f-string
RECURSIVE NatStr(_)
NatStr(n) == IF n < 10 THEN Ch(Digits, n + 1) ELSE NatStr(n \div 10) \o Ch(Digits, (n % 10) + 1)

IntStr(n) == IF n < 0 THEN "-" \o NatStr(0 - n) ELSE NatStr(n)

----------------------------------------------------------------------------
(* Version encoder: parse_version *)

MinorModulus == 256
BuildModulus == 65536
BuildFactor == 1000

\* The outcome of a call: a returned string, or sys.exit(1) after a ValueError
Returned(s) == [kind |-> "returned", value |-> s]
Exited == [kind |-> "exit", value |-> ""]
NotCalled == [kind |-> "none", value |-> ""]

FormatVersion(major, minor, build) ==
    IntStr(major) \o "." \o IntStr(minor) \o "." \o IntStr(build)

\* A faulty variant: the date-based branch taken for 4 parts as well
IsDateBasedAnyLength(parts) == Len(parts) \in {3, 4} /\ Len(parts[1]) = 4

\* line 75: the date-based branch
IsDateBased(parts) == Len(parts) = 3 /\ Len(parts[1]) = 4

\* line 84: the build number of a 4-part version
BuildWithNumber(build, b) == (build * BuildFactor + b) % BuildModulus

ParseVersion(version_str) ==
    LET parts == Split(version_str, ".")
    IN IF IsDateBased(parts) THEN
          LET major == PyInt(SubSeq(parts[1], 3, 4))
              minor == PyInt(parts[2])
              build == PyInt(parts[3])
          IN IF major.ok /\ minor.ok /\ build.ok
             THEN Returned(FormatVersion(major.val, minor.val % MinorModulus,
                                         build.val % BuildModulus))
             ELSE Exited
       ELSE IF Len(parts) \in {3, 4} THEN
          LET major == PyInt(parts[1])
              minor == PyInt(parts[2])
              build == PyInt(parts[3])
              b     == IF Len(parts) = 4 THEN PyInt(parts[4]) ELSE [ok |-> TRUE, val |-> 0]
          IN IF major.ok /\ minor.ok /\ build.ok /\ b.ok
             THEN Returned(FormatVersion(
                      major.val % MinorModulus,
                      minor.val % MinorModulus,
                      IF Len(parts) = 4
                      THEN BuildWithNumber(build.val % BuildModulus, b.val)
                      ELSE build.val % BuildModulus))
             ELSE Exited
       ELSE Exited

----------------------------------------------------------------------------
(* Directory resolver: get_standard_directories, find_standard_directory *)

Sep == "\\"
AltSep == "/"

\* ntpath.splitdrive for a drive-letter path: <<drive, rest>>
SplitDrive(path) ==
    IF Len(path) >= 2 /\ Ch(path, 2) = ":" THEN <<SubSeq(path, 1, 2), DropFirst(path, 2)>>
    ELSE <<"", path>>

\* the component loop of ntpath.normpath: empty and "." components are dropped,
\* ".." removes the component before it (or itself, right under the root)
RECURSIVE NormComps(_, _, _)
NormComps(comps, out, rooted) ==
    IF Len(comps) = 0 THEN out
    ELSE LET c == Head(comps)
         IN IF c = "" \/ c = "." THEN NormComps(Tail(comps), out, rooted)
            ELSE IF c = ".." THEN
               IF Len(out) > 0 /\ out[Len(out)] # ".."
               THEN NormComps(Tail(comps), SubSeq(out, 1, Len(out) - 1), rooted)
               ELSE IF Len(out) = 0 /\ rooted
               THEN NormComps(Tail(comps), out, rooted)
               ELSE NormComps(Tail(comps), Append(out, c), rooted)
            ELSE NormComps(Tail(comps), Append(out, c), rooted)

\* os.path.normpath on Windows (ntpath), for paths without a UNC prefix
NormPath(path) ==
    LET p      == Replace(path, AltSep, Sep)
        sd     == SplitDrive(p)
        rooted == StartsWith(sd[2], Sep)
        prefix == IF rooted THEN sd[1] \o Sep ELSE sd[1]
        comps  == NormComps(Split(LStrip(sd[2], Sep), Sep), <<>>, rooted)
    IN IF prefix = "" /\ Len(comps) = 0 THEN "."
       ELSE prefix \o Join(comps, Sep)

Entry(path, id) == [path |-> path, id |-> id]

\* get_standard_directories: the dict, in insertion order
StandardDirectories(username) ==
    LET home == "C:\\Users\\" \o username \o "\\"
    IN << Entry("C:\\Program Files", "ProgramFilesFolder"),
          Entry("C:\\Program Files (x86)", "ProgramFiles6432Folder"),
          Entry("C:\\Program Files\\Common Files", "CommonFilesFolder"),
          Entry("C:\\Program Files\\Common Files (x86)", "CommonFiles6432Folder"),
          Entry("C:\\ProgramData", "CommonAppDataFolder"),
          Entry("C:\\Windows", "WindowsFolder"),
          Entry("C:\\Windows\\System32", "SystemFolder"),
          Entry("C:\\Windows\\SysWOW64", "System64Folder"),
          Entry("C:\\Windows\\Fonts", "FontsFolder"),
          Entry(home \o "AppData\\Local", "LocalAppDataFolder"),
          Entry(home \o "AppData\\Roaming", "AppDataFolder"),
          Entry(home \o "Desktop", "DesktopFolder"),
          Entry(home \o "Documents", "PersonalFolder"),
          Entry(home \o "Favorites", "FavoritesFolder"),
          Entry(home \o "My Pictures", "MyPicturesFolder"),
          Entry(home \o "NetHood", "NetHoodFolder"),
          Entry(home \o "PrintHood", "PrintHoodFolder"),
          Entry(home \o "Recent", "RecentFolder"),
          Entry(home \o "SendTo", "SendToFolder"),
          Entry(home \o "Start Menu", "StartMenuFolder"),
          Entry(home \o "Startup", "StartupFolder"),
          Entry("C:\\Windows\\System", "System16Folder"),
          Entry("C:\\Windows\\Temp", "TempFolder"),
          Entry("C:\\Windows\\System32\\config\\systemprofile\\AppData\\Local",
                "LocalAppDataFolder") >>

\* A faulty variant: the table taken in its own order, longest-first sorting left out
UnsortedDirectories(table) == table

\* line 143: sorted(items, key=-len(path)); sorted() is stable, so entries of
\* equal length keep the table's order
SortedDirectories(table) ==
    LET Before(i, j) == \/ Len(table[i].path) > Len(table[j].path)
                        \/ Len(table[i].path) = Len(table[j].path) /\ i < j
        Rank(i) == 1 + Cardinality({j \in 1..Len(table) : Before(j, i)})
    IN [k \in 1..Len(table) |-> table[CHOOSE i \in 1..Len(table) : Rank(i) = k]]

\* None, the directory_id of a path under no standard directory
NoneId == ""

Resolved(id, rest) == [kind |-> "returned", directory_id |-> id, remaining_path |-> rest]
DirNotCalled == [kind |-> "none", directory_id |-> NoneId, remaining_path |-> ""]

\* lines 145-153: the first candidate that equals the path or is a string prefix of it
RECURSIVE FirstMatch(_, _, _)
FirstMatch(candidates, normalized_install_path, install_path) ==
    IF Len(candidates) = 0 THEN Resolved(NoneId, install_path)
    ELSE LET normalized_standard_path == Lower(NormPath(Head(candidates).path))
         IN IF normalized_install_path = normalized_standard_path
            THEN Resolved(Head(candidates).id, "")
            ELSE IF StartsWith(normalized_install_path, normalized_standard_path)
            THEN Resolved(Head(candidates).id,
                          LStrip(DropFirst(normalized_install_path,
                                           Len(normalized_standard_path)), Sep))
            ELSE FirstMatch(Tail(candidates), normalized_install_path, install_path)

FindStandardDirectory(install_path, standard_directories) ==
    FirstMatch(SortedDirectories(standard_directories),
               Lower(NormPath(install_path)), install_path)

\* The install paths handed to the resolver: a standard directory or another
\* directory, as written or in lower case, followed by one of the suffixes
Usernames == {"bob", "Al Ice"}

OtherDirectories == {"D:\\Apps", "C:\\Windows\\System32\\config", "C:\\Users"}

PathSuffixes ==
    {"", "\\App", "2\\App", "/My App/", "\\.\\Sub\\\\App", "\\..\\Windows\\Fonts\\X",
     " (x86)\\Tool", "\\Common Files (x86)\\Lib"}

InstallPaths(username) ==
    LET table == StandardDirectories(username)
        bases == {table[i].path : i \in 1..Len(table)} \cup OtherDirectories
    IN {b \o s : b \in bases \cup {Lower(b) : b \in bases}, s \in PathSuffixes}

DirIdle == din = "" /\ duser = "" /\ dout = DirNotCalled

VersionIdle == vin = "" /\ vparts = <<>> /\ vout = NotCalled

NoConfig == [loaded |-> FALSE, version |-> "", install_path |-> "", identity |-> FALSE]
NoProject == [payload_exists |-> FALSE, payload |-> {}, scripts_exists |-> FALSE, scripts |-> {}]
NothingPending == [payload |-> {}, scripts |-> {}, entries |-> {}]
NothingInvoked == [compiler |-> 0, signer |-> 0]

\* no run of main() is under way
RunIdle ==
    /\ env = [arch |-> "", login |-> "", no_sign |-> FALSE]
    /\ project = NoProject
    /\ config = NoConfig
    /\ pc = "idle"
    /\ outcome = ""
    /\ doc = <<>>
    /\ current_dir = 0
    /\ pending = NothingPending
    /\ script_count = 0
    /\ next_uuid = 0
    /\ notices = <<>>
    /\ manifest = <<>>
    /\ invoked = NothingInvoked

InitDir ==
    /\ duser \in Usernames
    /\ din \in InstallPaths(duser)
    /\ dout = DirNotCalled
    /\ VersionIdle
    /\ RunIdle

CallFindStandardDirectory ==
    /\ dout.kind = "none"
    /\ dout' = FindStandardDirectory(din, StandardDirectories(duser))
    /\ UNCHANGED <<din, duser>>
    /\ UNCHANGED <<versionVars, runVars>>

NextDir == CallFindStandardDirectory

SpecDir == InitDir /\ [][NextDir]_vars

----------------------------------------------------------------------------
(* The version encoder on its own *)

\* The parts a version string is assembled from
MaxParts == 4

VersionParts == {"1", "300", "70000", "2024", "0012", "ab12", "a", "", "-123"}

VersionInputs == UNION {[1..n -> VersionParts] : n \in 1..MaxParts}

InitVersion ==
    /\ vparts \in VersionInputs
    /\ vin = Join(vparts, ".")
    /\ vout = NotCalled
    /\ DirIdle
    /\ RunIdle

CallParseVersion ==
    /\ vout.kind = "none"
    /\ vout' = ParseVersion(vin)
    /\ UNCHANGED <<vin, vparts>>
    /\ UNCHANGED <<dirVars, runVars>>

NextVersion == CallParseVersion

SpecVersion == InitVersion /\ [][NextVersion]_vars

\* The encoding of spec section 4.1, on the numeric values of the parts
ReferenceEncoding(p) ==
    LET X == DecVal(p[1])
        Y == DecVal(p[2])
        Z == DecVal(p[3])
    IN IF Len(p) = 3 /\ Len(p[1]) = 4
       THEN IntStr(X % 100) \o "." \o IntStr(Y % 256) \o "." \o IntStr(Z % 65536)
       ELSE IF Len(p) = 3
       THEN IntStr(X % 256) \o "." \o IntStr(Y % 256) \o "." \o IntStr(Z % 65536)
       ELSE IntStr(X % 256) \o "." \o IntStr(Y % 256) \o "."
                \o IntStr((Z * 1000 + DecVal(p[4])) % 65536)

\* C1: for a version string of 3 or 4 dot-separated parts that are all decimal
\* digits, parse_version returns "major.minor.build" of the reference encoder:
\* (YYYY mod 100, MM mod 256, DD mod 65536) for 3 parts with a 4-digit first part,
\* (X mod 256, Y mod 256, Z mod 65536) for 3 parts otherwise, and
\* (X mod 256, Y mod 256, (Z*1000 + B) mod 65536) for 4 parts.
C1_ReferenceEncoding ==
    (/\ vout.kind # "none"
     /\ Len(vparts) \in {3, 4}
     /\ \A i \in 1..Len(vparts) : AllDigits(vparts[i]))
    => vout = Returned(ReferenceEncoding(vparts))

\* C1's case: a 4-part version whose third part exceeds 65535 has been encoded
C1_Witness ==
    /\ vout.kind = "returned"
    /\ Len(vparts) = 4
    /\ vparts[1] = "2024" /\ vparts[2] = "300" /\ vparts[3] = "70000" /\ vparts[4] = "300"

\* C2: a version string that does not consist of exactly 3 or exactly 4
\* dot-separated parts, or in which some part is not a number (here: not even
\* something int() accepts), makes parse_version fail; it never returns a triple.
C2_MalformedFails ==
    (/\ vout.kind # "none"
     /\ \/ Len(vparts) \notin {3, 4}
        \/ \E i \in 1..Len(vparts) : ~PyInt(vparts[i]).ok)
    => vout.kind = "exit"

\* The roots of the table that match a normalized install path, exactly or as a
\* string prefix (the test of lines 147 and 149)
MatchingRoots(table, normalized) ==
    {i \in 1..Len(table) :
        LET r == Lower(NormPath(table[i].path))
        IN normalized = r \/ StartsWith(normalized, r)}

\* C3: directory resolution is longest-prefix-correct: when roots of the table
\* match the normalized install path, find_standard_directory returns the token of
\* a longest matching root with the remainder after that root, never the token of
\* a shorter matching root.
C3_LongestPrefix ==
    dout.kind # "none" =>
        LET table == StandardDirectories(duser)
            n     == Lower(NormPath(din))
            M     == MatchingRoots(table, n)
        IN M # {} =>
             \E i \in M :
                /\ \A j \in M : Len(table[j].path) <= Len(table[i].path)
                /\ dout.directory_id = table[i].id
                /\ dout.remaining_path = LStrip(DropFirst(n, Len(table[i].path)), Sep)

\* C3's case: two roots of different length and with different tokens match, and
\* the call returned the token of the longer one
C3_Witness ==
    /\ dout.kind = "returned"
    /\ LET table == StandardDirectories(duser)
           M     == MatchingRoots(table, Lower(NormPath(din)))
       IN \E i, j \in M :
             /\ Len(table[j].path) < Len(table[i].path)
             /\ table[j].id # table[i].id
             /\ dout.directory_id = table[i].id

\* An install path lies under a root when it is that directory or a descendant
\* directory of it: the root's components are the path's first components
LiesUnder(normalized, root) ==
    \/ normalized = root
    \/ StartsWith(normalized, IF EndsWith(root, Sep) THEN root ELSE root \o Sep)

RootsAbove(table, normalized) ==
    {i \in 1..Len(table) : LiesUnder(normalized, Lower(NormPath(table[i].path)))}

\* C4: find_standard_directory returns (root token, remainder) when, and only
\* when, the install path lies under a known root of the table, and (None, the
\* unmodified input path) otherwise; it never returns the token of a root whose
\* directory the path is not inside.
C4_TokenOnlyUnderRoot ==
    dout.kind # "none" =>
        LET table == StandardDirectories(duser)
            n     == Lower(NormPath(din))
            above == RootsAbove(table, n)
        IN /\ above # {} => dout.directory_id # NoneId
           /\ dout.directory_id # NoneId =>
                 \E i \in above : table[i].id = dout.directory_id
           /\ dout.directory_id = NoneId => dout.remaining_path = din

----------------------------------------------------------------------------
(* The element tree: doc[n] is the n-th element created; its parent is an    *)
(* earlier element (0 for the root), so the children of an element are in    *)
(* document order when taken by increasing n.                                *)

Element(parent, tag, attrs) == [parent |-> parent, tag |-> tag, attrs |-> attrs]

\* etree.SubElement(parent, tag, **attrs); the new element is Len(d) + 1
SubElement(d, parent, tag, attrs) == Append(d, Element(parent, tag, attrs))

\* element.find("./tag"): the first child with that tag, 0 for None
FindChild(d, parent, tag) ==
    LET hits == {n \in 1..Len(d) : d[n].parent = parent /\ d[n].tag = tag}
    IN IF hits = {} THEN 0 ELSE CHOOSE n \in hits : \A m \in hits : n <= m

\* tree.findall(".//tag"): the elements with that tag below the root
FindAll(d, tag) == {n \in 1..Len(d) : d[n].parent # 0 /\ d[n].tag = tag}

\* uuid.uuid4().hex: the n-th value drawn, different from every other one
Uuid(n) == "u" \o IntStr(n)

----------------------------------------------------------------------------
(* Tree builder *)

\* generate_directory_id_name
GenerateDirectoryIdName(part) ==
    LET sanitized_part ==
            Replace(Replace(Replace(Replace(part, " ", "_"), ":", ""), Sep, ""), AltSep, "")
        stripped == Replace(Replace(Replace(part, ":", ""), Sep, ""), AltSep, "")
    IN [dir_id   |-> "dir_" \o sanitized_part,
        dir_name |-> IF stripped = "" THEN "ROOT" ELSE stripped]

RECURSIVE DropDots(_)
DropDots(comps) ==
    IF Len(comps) = 0 THEN <<>>
    ELSE IF Head(comps) = "" \/ Head(comps) = "." THEN DropDots(Tail(comps))
    ELSE <<Head(comps)>> \o DropDots(Tail(comps))

\* Path(path).parts of a Windows path: the drive and root as one part, then the
\* components that are neither empty nor "."
PathParts(path) ==
    LET p      == Replace(path, AltSep, Sep)
        sd     == SplitDrive(p)
        rooted == StartsWith(sd[2], Sep)
        anchor == IF rooted THEN sd[1] \o Sep ELSE sd[1]
        rest   == DropDots(Split(LStrip(sd[2], Sep), Sep))
    IN IF anchor = "" THEN rest ELSE <<anchor>> \o rest

\* create_directory_structure: one Directory per part, each inside the one before
RECURSIVE CreateDirectoryStructure(_, _, _)
CreateDirectoryStructure(d, parent, parts) ==
    IF Len(parts) = 0 THEN [doc |-> d, current |-> parent]
    ELSE LET g == GenerateDirectoryIdName(Head(parts))
         IN CreateDirectoryStructure(
                SubElement(d, parent, "Directory", [Id |-> g.dir_id, Name |-> g.dir_name]),
                Len(d) + 1, Tail(parts))

\* A faulty variant: the lookup that never finds the existing Directory
FindNoDirectory(d, current, dir_id) == 0

\* line 353: current.find("./Directory[@Id='dir_id']"), 0 for None
FindDirectory(d, current, dir_id) ==
    LET hits == {n \in 1..Len(d) : /\ d[n].parent = current
                                   /\ d[n].tag = "Directory"
                                   /\ d[n].attrs.Id = dir_id}
    IN IF hits = {} THEN 0 ELSE CHOOSE n \in hits : \A m \in hits : n <= m

\* get_or_create_directory
RECURSIVE GetOrCreateDirectory(_, _, _)
GetOrCreateDirectory(d, parent, parts) ==
    IF Len(parts) = 0 THEN [doc |-> d, current |-> parent]
    ELSE LET g        == GenerateDirectoryIdName(Head(parts))
             existing == FindDirectory(d, parent, g.dir_id)
         IN IF existing = 0
            THEN GetOrCreateDirectory(
                     SubElement(d, parent, "Directory",
                                [Id |-> g.dir_id, Name |-> g.dir_name]),
                     Len(d) + 1, Tail(parts))
            ELSE GetOrCreateDirectory(d, existing, Tail(parts))

\* A faulty variant: the ComponentRef written for the first component only
RegisterFirstComponent(d, feature, component_id) ==
    IF FindAll(d, "ComponentRef") = {}
    THEN SubElement(d, feature, "ComponentRef", [Id |-> component_id])
    ELSE d

\* line 347: the component's entry in the feature listing
RegisterComponent(d, feature, component_id) ==
    SubElement(d, feature, "ComponentRef", [Id |-> component_id])

\* lines 339-347: one file of the walk of directory (payload or scripts); file is
\* its path relative to that directory, as a sequence of names
InsertFile(d, current, directory, file, uuid) ==
    LET name         == file[Len(file)]
        dir          == GetOrCreateDirectory(d, current, SubSeq(file, 1, Len(file) - 1))
        component_id == "Component_" \o Uuid(uuid)
        with_comp    == SubElement(dir.doc, dir.current, "Component",
                                   [Id |-> component_id, Guid |-> Uuid(uuid + 1)])
        with_file    == SubElement(with_comp, Len(with_comp), "File",
                                   [Id      |-> "File_" \o name,
                                    Source  |-> Join(<<directory>> \o file, Sep),
                                    KeyPath |-> "yes"])
    IN RegisterComponent(with_file, FindChild(d, 2, "Feature"), component_id)

----------------------------------------------------------------------------
(* Action scheduler *)

\* get_arch_short; "" stands for the ValueError of an unsupported architecture
GetArchShort(machine) ==
    LET arch == Lower(machine)
    IN IF arch \in {"x86_64", "amd64"} THEN "x64"
       ELSE IF arch \in {"x86", "i386", "i686"} THEN "x86"
       ELSE IF Contains(arch, "arm") THEN "arm64"
       ELSE ""

\* PurePath.suffix: from the last dot, unless the name starts or ends with it
Suffix(name) ==
    LET i == RFind(name, ".")
    IN IF 1 < i /\ i < Len(name) THEN DropFirst(name, i - 1) ELSE ""

\* PurePath.stem
Stem(name) ==
    LET i == RFind(name, ".")
    IN IF 1 < i /\ i < Len(name) THEN SubSeq(name, 1, i - 1) ELSE name

\* line 186
IsScriptFile(name) == Lower(Suffix(name)) = ".js"

\* A faulty variant: the two anchors exchanged
ClassifySwapped(name) ==
    LET script_name == Lower(Stem(name))
    IN IF Contains(script_name, "preinstall")
       THEN [kind |-> "PreInstall", sequence_ref |-> "InstallFinalize",
             sequence_position |-> "Before"]
       ELSE IF Contains(script_name, "postinstall")
       THEN [kind |-> "PostInstall", sequence_ref |-> "InstallInitialize",
             sequence_position |-> "After"]
       ELSE [kind |-> "", sequence_ref |-> "", sequence_position |-> ""]

\* lines 187-198: the phase of a script file; kind "" is the "continue"
Classify(name) ==
    LET script_name == Lower(Stem(name))
    IN IF Contains(script_name, "preinstall")
       THEN [kind |-> "PreInstall", sequence_ref |-> "InstallInitialize",
             sequence_position |-> "After"]
       ELSE IF Contains(script_name, "postinstall")
       THEN [kind |-> "PostInstall", sequence_ref |-> "InstallFinalize",
             sequence_position |-> "Before"]
       ELSE [kind |-> "", sequence_ref |-> "", sequence_position |-> ""]

\* line 201
CommandLine(name) == "\"[SystemFolder]cscript.exe\" //NoLogo \"[#File_" \o name \o "]\""

\* lines 200-232: the three elements of one scheduled script. The Custom element's
\* attribute After="..." or Before="..." is held as Position and Ref.
ScheduleScript(d, name, class, arch_suffix, uuid) ==
    LET action_id    == class.kind \o "_" \o Uuid(uuid)
        sequence     == FindChild(d, 2, "InstallExecuteSequence")
        set_property == SubElement(d, 2, "SetProperty",
                            [Id |-> action_id, Value |-> CommandLine(name),
                             Before |-> action_id, Sequence |-> "execute"])
        custom_action == SubElement(set_property, 2, "CustomAction",
                            [Id |-> action_id, BinaryRef |-> "Wix4UtilCA_" \o arch_suffix,
                             DllEntry |-> "WixQuietExec", Execute |-> "deferred",
                             Impersonate |-> "no", Return |-> "check"])
    IN SubElement(custom_action, sequence, "Custom",
           [Action |-> action_id, Position |-> class.sequence_position,
            Ref |-> class.sequence_ref, Condition |-> "NOT Installed"])

----------------------------------------------------------------------------
(* main(): one run over a project directory *)

Machines == {"AMD64", "ARM64", "mips"}

PayloadLayouts ==
    { [exists |-> FALSE, files |-> {}],
      [exists |-> TRUE,  files |-> {<<"app.exe">>, <<"docs", "postinstall.js">>}],
      [exists |-> TRUE,  files |-> {<<"bin", "a.exe">>, <<"bin", "b.dll">>,
                                    <<"lib", "bin", "c.dll">>}] }

ScriptsLayouts ==
    { [exists |-> FALSE, files |-> {}],
      [exists |-> TRUE,  files |-> {<<"postinstall.js">>}],
      [exists |-> TRUE,  files |-> {<<"PreInstall-setup.JS">>, <<"readme.txt">>}],
      [exists |-> TRUE,  files |-> {<<"setup.js">>}],
      [exists |-> TRUE,  files |-> {<<"readme.txt">>}],
      [exists |-> TRUE,  files |-> {<<"PostInstall.vbs">>, <<"bin", "tool.js">>}] }

Projects ==
    { [payload_exists |-> p.exists, payload |-> p.files,
       scripts_exists |-> s.exists, scripts |-> s.files] :
          p \in PayloadLayouts, s \in ScriptsLayouts }

Configs ==
    { [loaded |-> TRUE, version |-> v, install_path |-> i, identity |-> id] :
          v \in {"2025.1.2", "1.2"},
          i \in {"C:\\Program Files\\My App", "C:\\Users\\[username]\\Documents",
                 "D:\\Apps\\bin"},
          id \in BOOLEAN }

Init ==
    /\ VersionIdle
    /\ DirIdle
    /\ env \in [arch : Machines, login : {"bob"}, no_sign : BOOLEAN]
    /\ project \in Projects
    /\ config = NoConfig
    /\ pc = "start"
    /\ outcome = ""
    /\ doc = <<>>
    /\ current_dir = 0
    /\ pending = NothingPending
    /\ script_count = 0
    /\ next_uuid = 0
    /\ notices = <<>>
    /\ manifest = <<>>
    /\ invoked = NothingInvoked

\* sys.exit(1), or an exception that main() turns into sys.exit(1)
Exit(why) == pc' = "exit" /\ outcome' = why

\* check_wix_toolset: wix.exe is there or the run ends
CheckWixToolset ==
    /\ pc = "start"
    /\ \E found \in BOOLEAN :
          IF found THEN pc' = "read" /\ outcome' = outcome
          ELSE Exit("WiX Toolset is not installed")
    /\ UNCHANGED <<versionVars, dirVars, env, project, config, doc, current_dir, pending,
                   script_count, next_uuid, notices, manifest, invoked>>

\* read_build_info: the file's content, or the exception of a file that cannot be read
ReadBuildInfo ==
    /\ pc = "read"
    /\ \E readable \in BOOLEAN :
          IF readable
          THEN /\ \E c \in Configs : config' = c
               /\ pc' = "generate"
               /\ outcome' = outcome
          ELSE /\ config' = config
               /\ Exit("An error occurred: build-info.yaml")
    /\ UNCHANGED <<versionVars, dirVars, env, project, doc, current_dir, pending,
                   script_count, next_uuid, notices, manifest, invoked>>

\* generate_wix_files, lines 286-319: the package, its fixed children, the
\* directory chain of the install path and the feature. Of the Package's
\* attributes the product's name, manufacturer and upgrade code are left out.
GenerateWixFiles ==
    /\ pc = "generate"
    /\ \E install_path \in {Replace(config.install_path, "[username]", env.login)} :
       \E found \in {FindStandardDirectory(install_path, StandardDirectories(env.login))} :
       \E version \in {ParseVersion(config.version)} :
       LET head    == << Element(0, "Wix", [nsmap |-> "wxs"]),
                         Element(1, "Package", [Version |-> version.value,
                                                InstallerVersion |-> "500",
                                                Compressed |-> "yes"]),
                         Element(2, "InstallExecuteSequence", [none |-> ""]),
                         Element(2, "MajorUpgrade", [DowngradeErrorMessage |->
                             "A newer version of [ProductName] is already installed."]),
                         Element(2, "Media", [Id |-> "1", Cabinet |-> "product.cab",
                                              EmbedCab |-> "yes"]),
                         Element(2, "StandardDirectory",
                                 [Id |-> IF found.directory_id # NoneId
                                         THEN found.directory_id ELSE "INSTALLFOLDER"]) >>
           chain   == CreateDirectoryStructure(head, Len(head),
                          PathParts(IF found.directory_id # NoneId
                                    THEN found.remaining_path ELSE install_path))
       IN IF version.kind = "exit"
          THEN /\ Exit("Error parsing version")
               /\ UNCHANGED <<doc, current_dir, pending>>
          ELSE /\ doc' = SubElement(chain.doc, 2, "Feature",
                                    [Id |-> "MainFeature", Title |-> "Main Feature",
                                     Level |-> "1"])
               /\ current_dir' = chain.current
               /\ pending' = [payload |-> IF project.payload_exists
                                          THEN project.payload ELSE {},
                              scripts |-> IF project.scripts_exists
                                          THEN project.scripts ELSE {},
                              entries |-> {}]
               /\ pc' = "payload"
               /\ outcome' = outcome
    /\ UNCHANGED <<versionVars, dirVars, env, project, config, script_count, next_uuid,
                   notices, manifest, invoked>>

\* add_payload_files, the walk of payload/: one file, in whatever order rglob
\* yields them
AddPayloadFile ==
    /\ pc = "payload"
    /\ \E file \in pending.payload :
          /\ doc' = InsertFile(doc, current_dir, "payload", file, next_uuid)
          /\ pending' = [pending EXCEPT !.payload = @ \ {file}]
    /\ next_uuid' = next_uuid + 2
    /\ UNCHANGED <<versionVars, dirVars, env, project, config, pc, outcome, current_dir,
                   script_count, notices, manifest, invoked>>

\* add_payload_files, the walk of scripts/, which follows that of payload/
AddScriptsFile ==
    /\ pc = "payload"
    /\ pending.payload = {}
    /\ \E file \in pending.scripts :
          /\ doc' = InsertFile(doc, current_dir, "scripts", file, next_uuid)
          /\ pending' = [pending EXCEPT !.scripts = @ \ {file}]
    /\ next_uuid' = next_uuid + 2
    /\ UNCHANGED <<versionVars, dirVars, env, project, config, pc, outcome, current_dir,
                   script_count, notices, manifest, invoked>>

\* add_payload_files returns
EndPayloadFiles ==
    /\ pc = "payload"
    /\ pending.payload = {} /\ pending.scripts = {}
    /\ pc' = "actions"
    /\ UNCHANGED <<versionVars, dirVars, env, project, config, outcome, doc, current_dir,
                   pending, script_count, next_uuid, notices, manifest, invoked>>

\* add_payload_files, lines 335-338: the walk of a directory that exists raises
\* an OSError (an entry that cannot be read); main's handler of lines 632-637
\* logs it and ends the run
WalkFails ==
    /\ pc = "payload"
    /\ project.payload_exists \/ project.scripts_exists
    /\ Exit("An error occurred: filesystem error")
    /\ UNCHANGED <<versionVars, dirVars, env, project, config, doc, current_dir, pending,
                   script_count, next_uuid, notices, manifest, invoked>>

\* scripts_dir.iterdir(): the names directly inside scripts/, files and directories
ScriptsEntries == {file[1] : file \in project.scripts}

\* add_custom_actions, lines 170-183 and 242-243
BeginCustomActions ==
    /\ pc = "actions"
    /\ IF ~project.scripts_exists
       THEN /\ notices' = Append(notices, "No scripts directory found. Skipping custom actions.")
            /\ pc' = "binary"
            /\ UNCHANGED <<outcome, doc, pending, script_count>>
       ELSE IF GetArchShort(env.arch) = ""
       THEN /\ Exit("An error occurred: Unsupported architecture")
            /\ UNCHANGED <<doc, pending, script_count, notices>>
       ELSE /\ doc' = IF FindChild(doc, 2, "InstallExecuteSequence") = 0
                      THEN SubElement(doc, 2, "InstallExecuteSequence", [none |-> ""])
                      ELSE doc
            /\ script_count' = 0
            /\ pending' = [pending EXCEPT !.entries = ScriptsEntries]
            /\ pc' = "scripts"
            /\ UNCHANGED <<outcome, notices>>
    /\ UNCHANGED <<versionVars, dirVars, env, project, config, current_dir, next_uuid,
                   manifest, invoked>>

\* the skip notice of line 236 for an entry of scripts/
SkipNotice(name) == "File " \o name \o " is not a supported script type. Skipping."

\* add_custom_actions, lines 185-236: one entry of scripts/
ProcessScript ==
    /\ pc = "scripts"
    /\ \E name \in pending.entries :
          /\ pending' = [pending EXCEPT !.entries = @ \ {name}]
          /\ IF IsScriptFile(name)
             THEN IF Classify(name).kind # ""
                  THEN /\ doc' = ScheduleScript(doc, name, Classify(name),
                                                GetArchShort(env.arch), next_uuid)
                       /\ next_uuid' = next_uuid + 1
                       /\ script_count' = script_count + 1
                       /\ UNCHANGED notices
                  ELSE UNCHANGED <<doc, next_uuid, script_count, notices>>
             ELSE /\ notices' = Append(notices, SkipNotice(name))
                  /\ UNCHANGED <<doc, next_uuid, script_count>>
    /\ UNCHANGED <<versionVars, dirVars, env, project, config, pc, outcome, current_dir,
                   manifest, invoked>>

\* add_custom_actions, lines 238-241
EndCustomActions ==
    /\ pc = "scripts"
    /\ pending.entries = {}
    /\ notices' = Append(notices,
                     IF script_count > 0
                     THEN "Added custom actions for " \o IntStr(script_count)
                              \o " scripts using WixQuietExec"
                     ELSE "No valid scripts found in the scripts directory.")
    /\ pc' = "binary"
    /\ UNCHANGED <<versionVars, dirVars, env, project, config, outcome, doc, current_dir,
                   pending, script_count, next_uuid, manifest, invoked>>

\* add_binary_reference with find_wix_util_dll: called for every project
AddBinaryReference ==
    /\ pc = "binary"
    /\ IF GetArchShort(env.arch) = ""
       THEN /\ Exit("An error occurred: Unsupported architecture")
            /\ UNCHANGED doc
       ELSE \E dll_found \in BOOLEAN :
               IF dll_found
               THEN /\ doc' = SubElement(doc, 2, "Binary",
                                 [Id |-> "Wix4UtilCA_" \o GetArchShort(env.arch),
                                  SourceFile |-> "WixToolset.Util.wixext.dll"])
                    /\ pc' = "write"
                    /\ outcome' = outcome
               ELSE /\ Exit("Could not find WixToolset.Util.wixext.dll")
                    /\ UNCHANGED doc
    /\ UNCHANGED <<versionVars, dirVars, env, project, config, current_dir, pending,
                   script_count, next_uuid, notices, manifest, invoked>>

\* A faulty variant: the tree is written as soon as the scripts are scheduled,
\* before the reference to the helper binary is added
SaveWixFilesEarly ==
    /\ pc \in {"binary", "write"}
    /\ manifest' = doc
    /\ pc' = "verify"
    /\ UNCHANGED <<versionVars, dirVars, env, project, config, outcome, doc, current_dir,
                   pending, script_count, next_uuid, notices, invoked>>

\* generate_and_save_wix_files, lines 569-579: the tree is written to Package.wxs
SaveWixFiles ==
    /\ pc = "write"
    /\ manifest' = doc
    /\ pc' = "verify"
    /\ UNCHANGED <<versionVars, dirVars, env, project, config, outcome, doc, current_dir,
                   pending, script_count, next_uuid, notices, invoked>>

\* Path.glob("*.ext") in scripts/ (Windows paths match without regard to case)
Glob(ext) == {name \in ScriptsEntries : EndsWith(Lower(name), ext)}

\* main, line 610
HasScripts == project.scripts_exists /\ (Glob(".vbs") # {} \/ Glob(".js") # {})

RequiredTags(has_scripts) ==
    {"Package", "Directory", "Component", "ComponentRef"}
        \cup (IF has_scripts THEN {"CustomAction", "InstallExecuteSequence"} ELSE {})

\* verify_wxs_files on the file that was written
MissingTags(written, has_scripts) ==
    {tag \in RequiredTags(has_scripts) : FindAll(written, tag) = {}}

\* main, lines 609-614
VerifyWxsFiles ==
    /\ pc = "verify"
    /\ IF MissingTags(manifest, HasScripts) # {}
       THEN Exit("Verification of WiX source files failed")
       ELSE pc' = "build" /\ outcome' = outcome
    /\ UNCHANGED <<versionVars, dirVars, env, project, config, doc, current_dir, pending,
                   script_count, next_uuid, notices, manifest, invoked>>

\* build_msi: the extension is there or added, the compiler builds, and the
\* artifact is signed when the configuration holds an identity; each external
\* command succeeds or fails
BuildMsi ==
    /\ pc = "build"
    /\ \E extension_ok, build_ok, sign_ok \in BOOLEAN :
          LET compiled == extension_ok
              signed   == extension_ok /\ build_ok /\ config.identity
              msi_file == extension_ok /\ build_ok /\ (config.identity => sign_ok)
          IN /\ invoked' = [compiler |-> invoked.compiler + (IF compiled THEN 1 ELSE 0),
                            signer   |-> invoked.signer + (IF signed THEN 1 ELSE 0)]
             /\ IF msi_file
                THEN pc' = "built" /\ outcome' = outcome
                ELSE Exit("Failed to create MSI package")
    /\ UNCHANGED <<versionVars, dirVars, env, project, config, doc, current_dir, pending,
                   script_count, next_uuid, notices, manifest>>

\* main, lines 618-627: the artifact is signed unless --no-sign was given
FinishMain ==
    /\ pc = "built"
    /\ invoked' = [invoked EXCEPT !.signer =
                      @ + (IF config.identity /\ ~env.no_sign THEN 1 ELSE 0)]
    /\ pc' = "done"
    /\ outcome' = "MSI package creation process completed successfully"
    /\ UNCHANGED <<versionVars, dirVars, env, project, config, doc, current_dir, pending,
                   script_count, next_uuid, notices, manifest>>

Next ==
    \/ CheckWixToolset
    \/ ReadBuildInfo
    \/ GenerateWixFiles
    \/ AddPayloadFile
    \/ AddScriptsFile
    \/ EndPayloadFiles
    \/ WalkFails
    \/ BeginCustomActions
    \/ ProcessScript
    \/ EndCustomActions
    \/ AddBinaryReference
    \/ SaveWixFiles
    \/ VerifyWxsFiles
    \/ BuildMsi
    \/ FinishMain

Spec == Init /\ [][Next]_vars

----------------------------------------------------------------------------
(* Properties of a run *)

Directories(d) == {n \in 1..Len(d) : d[n].tag = "Directory"}

Files(d) == {n \in 1..Len(d) : d[n].tag = "File"}

\* the directory on disk a File element's Source lies in
SourceDirectory(source) == SubSeq(source, 1, RFind(source, Sep) - 1)

\* the element a File's Component was put under
HoldingDirectory(d, file) == d[d[file].parent].parent

\* C5: directory-tree insertion is deduplicating: after any sequence of file
\* insertions from the payload tree and the scripts tree no element has two
\* child Directory elements with the same Id, and two files that share a parent
\* directory on disk are placed under one and the same element.
C5_InsertionDeduplicates ==
    /\ \A a, b \in Directories(doc) :
          (a # b /\ doc[a].parent = doc[b].parent) => doc[a].attrs.Id # doc[b].attrs.Id
    /\ \A f, g \in Files(doc) :
          SourceDirectory(doc[f].attrs.Source) = SourceDirectory(doc[g].attrs.Source)
             => HoldingDirectory(doc, f) = HoldingDirectory(doc, g)

\* C5's case: two files of payload\bin have been inserted, under a Directory
C5_Witness ==
    \E f, g \in Files(doc) :
       /\ f # g
       /\ SourceDirectory(doc[f].attrs.Source) = "payload\\bin"
       /\ SourceDirectory(doc[g].attrs.Source) = "payload\\bin"
       /\ doc[HoldingDirectory(doc, f)].tag = "Directory"
       /\ doc[HoldingDirectory(doc, f)].attrs.Id = "dir_bin"

\* C6: Directory identifiers are unique per tree: no two distinct Directory
\* elements anywhere in the tree of one run (the install-path chain and every
\* element get_or_create_directory added) carry the same Id.
C6_DirectoryIdsUnique ==
    \A a, b \in Directories(doc) : a # b => doc[a].attrs.Id # doc[b].attrs.Id

\* C7: every Component of the tree is referenced by exactly one ComponentRef,
\* every ComponentRef refers to an existing Component, and all of them are in the
\* one Feature of the package.
C7_ComponentsReferencedOnce ==
    LET components == FindAll(doc, "Component")
        refs       == FindAll(doc, "ComponentRef")
    IN /\ \A c \in components :
             Cardinality({r \in refs : doc[r].attrs.Id = doc[c].attrs.Id}) = 1
       /\ \A r \in refs : \E c \in components : doc[c].attrs.Id = doc[r].attrs.Id
       /\ \A r \in refs : doc[r].parent = FindChild(doc, 2, "Feature")
       /\ Cardinality(FindAll(doc, "Feature")) <= 1

\* C7's case: add_payload_files has finished a project with files in payload/
\* and in scripts/
C7_Witness ==
    /\ pc = "actions"
    /\ Cardinality(FindAll(doc, "Component")) >= 4
    /\ \E f, g \in Files(doc) :
          /\ StartsWith(doc[f].attrs.Source, "payload\\")
          /\ StartsWith(doc[g].attrs.Source, "scripts\\")

\* add_custom_actions has left its loop
CustomActionsDone ==
    \E i \in 1..Len(notices) :
       \/ notices[i] = "No valid scripts found in the scripts directory."
       \/ StartsWith(notices[i], "Added custom actions for ")

\* the loop of add_custom_actions has visited this entry of scripts/
Visited(name) == (pc = "scripts" /\ name \notin pending.entries) \/ CustomActionsDone

\* The phase spec section 4.4 gives a file of scripts/: the script-file extension
\* and a keyword in the base name, both without regard to case
ExpectedPhase(name) ==
    LET lowered == Lower(name)
        base    == SubSeq(lowered, 1, Len(lowered) - 3)
    IN IF ~(Len(lowered) > 3 /\ EndsWith(lowered, ".js")) THEN "none"
       ELSE IF Contains(base, "preinstall") THEN "pre"
       ELSE IF Contains(base, "postinstall") THEN "post"
       ELSE "none"

\* the sequencing entries of the script file of that name: the Custom elements
\* whose action is the one a SetProperty gives the file's command line
SequencingEntries(d, name) ==
    {c \in FindAll(d, "Custom") :
        \E p \in FindAll(d, "SetProperty") :
           /\ d[p].attrs.Value = CommandLine(name)
           /\ d[p].attrs.Id = d[c].attrs.Action}

\* C8: a file of the scripts directory is scheduled only if it has the
\* script-file extension and its base name contains, without regard to case,
\* "preinstall" or "postinstall"; a preinstall file yields one sequencing entry
\* After InstallInitialize, a postinstall file one entry Before InstallFinalize, a
\* file with neither keyword none; every sequencing entry carries the condition
\* "NOT Installed" and belongs to a file of the scripts directory.
C8_ScriptScheduling ==
    LET files == {file[1] : file \in {f \in project.scripts : Len(f) = 1}}
    IN /\ \A name \in files :
             LET entries == SequencingEntries(doc, name)
             IN IF Visited(name) /\ ExpectedPhase(name) = "pre"
                THEN /\ Cardinality(entries) = 1
                     /\ \A c \in entries : /\ doc[c].attrs.Position = "After"
                                           /\ doc[c].attrs.Ref = "InstallInitialize"
                ELSE IF Visited(name) /\ ExpectedPhase(name) = "post"
                THEN /\ Cardinality(entries) = 1
                     /\ \A c \in entries : /\ doc[c].attrs.Position = "Before"
                                           /\ doc[c].attrs.Ref = "InstallFinalize"
                ELSE entries = {}
       /\ \A c \in FindAll(doc, "Custom") :
             /\ doc[c].attrs.Condition = "NOT Installed"
             /\ doc[doc[c].parent].tag = "InstallExecuteSequence"
             /\ \E name \in files : c \in SequencingEntries(doc, name)

\* C8's case: a script named in mixed case has been scheduled as a preinstall
\* hook beside a file that is no script, and the loop has ended
C8_Witness ==
    /\ CustomActionsDone
    /\ <<"readme.txt">> \in project.scripts
    /\ \E c \in SequencingEntries(doc, "PreInstall-setup.JS") :
          doc[c].attrs.Position = "After"

\* the number of scripts scheduled in the tree
Scheduled(d) == Cardinality(FindAll(d, "Custom"))

\* C9: the manifest contains the sequencing block (InstallExecuteSequence) and
\* the reference to the helper binary (Binary) if and only if at least one script
\* was scheduled in this run, and a run that schedules no script does not need the
\* helper binary to be locatable.
C9_SequencingOnlyWithScripts ==
    /\ manifest # <<>> =>
          /\ FindAll(manifest, "InstallExecuteSequence") # {} <=> Scheduled(manifest) > 0
          /\ FindAll(manifest, "Binary") # {} <=> Scheduled(manifest) > 0
    /\ outcome = "Could not find WixToolset.Util.wixext.dll" => Scheduled(doc) > 0

\* C10: a run whose scripts directory yields no scheduled script is not aborted
\* for it: verification ends such a run only when it would also end the run of
\* the same project without scripts (a basic tag is missing).
C10_ZeroScriptsNotAborted ==
    (/\ project.scripts_exists
     /\ Scheduled(doc) = 0
     /\ outcome = "Verification of WiX source files failed")
    => MissingTags(manifest, FALSE) # {}

\* C11: every file of the scripts directory that add_custom_actions does not
\* schedule produces a skip notice, be it a file without the script-file
\* extension or a script file whose base name holds neither keyword.
C11_UnscheduledFilesNoticed ==
    CustomActionsDone =>
        \A name \in {file[1] : file \in {f \in project.scripts : Len(f) = 1}} :
            SequencingEntries(doc, name) = {} =>
                \E i \in 1..Len(notices) : notices[i] = SkipNotice(name)

\* the outcomes of a run that failed while generate_wix_files built the tree
GenerationFailures ==
    {"Error parsing version",
     "An error occurred: Unsupported architecture",
     "An error occurred: filesystem error",
     "Could not find WixToolset.Util.wixext.dll"}

\* the files the walk of add_payload_files has to insert
ProjectFiles ==
    (IF project.payload_exists THEN {<<"payload">> \o f : f \in project.payload} ELSE {})
        \cup (IF project.scripts_exists
              THEN {<<"scripts">> \o f : f \in project.scripts} ELSE {})

\* the files of the scripts directory that section 4.4 calls for scheduling
SchedulableFiles ==
    IF project.scripts_exists
    THEN {name \in {file[1] : file \in {f \in project.scripts : Len(f) = 1}} :
             ExpectedPhase(name) # "none"}
    ELSE {}

\* C12: no partial manifest is ever written. A manifest that was written is the
\* finished tree: the version is encoded, the install path resolved to its
\* directory chain, every file of the project inserted, every schedulable script
\* scheduled and the helper binary referenced, and none of these steps failed.
\* A run that ends for a version format error, an unsupported architecture, a
\* filesystem error or a missing helper binary has written no manifest and has
\* not invoked the compiler, and the unsupported architecture is raised before
\* any script is scheduled.
C12_NoPartialManifest ==
    /\ manifest # <<>> =>
          /\ manifest = doc
          /\ outcome \notin GenerationFailures
          /\ ParseVersion(config.version).kind = "returned"
          /\ manifest[2].attrs.Version = ParseVersion(config.version).value
          /\ FindAll(manifest, "StandardDirectory") # {}
          /\ pending = NothingPending
          /\ {manifest[f].attrs.Source : f \in Files(manifest)}
                = {Join(file, Sep) : file \in ProjectFiles}
          /\ Scheduled(manifest) = Cardinality(SchedulableFiles)
          /\ FindAll(manifest, "Binary") # {}
    /\ outcome \in GenerationFailures => manifest = <<>> /\ invoked.compiler = 0
    /\ invoked.compiler > 0 => manifest # <<>>
    /\ outcome = "An error occurred: Unsupported architecture" => Scheduled(doc) = 0

\* C12's case: the run has ended for a missing helper binary after files were
\* inserted into the tree and a script was scheduled, and nothing was written
C12_Witness ==
    /\ outcome = "Could not find WixToolset.Util.wixext.dll"
    /\ pc = "exit"
    /\ Files(doc) # {}
    /\ Scheduled(doc) > 0
    /\ manifest = <<>>

\* C13: with --no-sign the signing utility is never invoked during the run, even
\* if the configuration provides an identity; without the flag and with an
\* identity configured, a run that built its artifact has signed it.
C13_NoSignHonoured ==
    /\ env.no_sign => invoked.signer = 0
    /\ (pc = "done" /\ config.identity /\ ~env.no_sign) => invoked.signer > 0

\* the File elements whose identifier the command line of a SetProperty names
ReferencedFiles(d, p) ==
    {f \in Files(d) : d[p].attrs.Value =
        "\"[SystemFolder]cscript.exe\" //NoLogo \"[#" \o d[f].attrs.Id \o "]\""}

\* C14: the command line of every scheduled action references a file identifier
\* that denotes exactly one File entry of the tree, the entry of that script in
\* the scripts directory; the identifiers of distinct File entries are distinct,
\* so no reference is ambiguous and none is dangling.
C14_ReferencesDenoteOneFile ==
    /\ \A p \in FindAll(doc, "SetProperty") :
          /\ Cardinality(ReferencedFiles(doc, p)) = 1
          /\ \A f \in ReferencedFiles(doc, p) :
                /\ SourceDirectory(doc[f].attrs.Source) = "scripts"
                /\ doc[p].attrs.Value
                      = CommandLine(DropFirst(doc[f].attrs.Source, Len("scripts") + 1))
    /\ \A f, g \in Files(doc) : f # g => doc[f].attrs.Id # doc[g].attrs.Id

====
